---------------------------- MODULE Spec2Model ----------------------------
(***************************************************************************)
(* Twilight Tales: the server-side game session (game-state-manager.ts)    *)
(* together with the socket handlers that drive it (socket-handler.ts) and *)
(* the delayed continuations they schedule: simulated card selections,     *)
(* text-generation completions, simulated votes and the round-resolution   *)
(* timer.  One session (one game id) of the registry is modelled; sessions *)
(* share no state.                                                         *)
(*                                                                         *)
(* Node runs every handler and every timer callback to completion, so each *)
(* of them is one action.  An await on a timer or on the text-generation   *)
(* service splits the function: the part after the await is an action of   *)
(* its own, enabled while the call is recorded as in flight.               *)
(***************************************************************************)
EXTENDS Integers, Sequences, FiniteSets, TLC

VARIABLES
  gameExists,   \* games.has(gameId)
  status,       \* game.status
  players,      \* game.players, in array order
  round,        \* game.round: number, status, story, submissions
  nextId,       \* next fresh human player id (uuidv4 in the handlers)
  ack,          \* acknowledgment of the last client operation
  selCalls,     \* makeAISelections calls whose timers are pending
  genCalls,     \* generateAIMorals calls awaiting generateAIMoral
  voteTrigs,    \* castVote triggers: pending AI vote timers, endRound timer,
                \* and (history) the number of the round that set them
  irregular,    \* client operations so far outside the regular course
  tallies       \* history: the score tallies of endRound in the current round

vars == <<gameExists, status, players, round, nextId, ack,
          selCalls, genCalls, voteTrigs, irregular, tallies>>

---------------------------------------------------------------------------
(* Bounds of the model *)

\* human sockets that ever create or join the session
MaxHumans == 2
\* asynchronous calls (selection calls, generation calls, vote triggers)
\* in flight at the same time
MaxInFlight == 2
\* client operations outside the regular course of a round, in one session:
\* a client repeats what it has already done in the round (selects again,
\* submits again, votes again), or it leaves or disconnects
MaxIrregular == 1
\* cards per deck
DeckSize == 3
\* hand positions a human chooses among when selecting
MaxPick == 1
\* hand positions a simulated participant's random index ranges over
MaxAIPick == 1
\* hand positions at which dealCards may put the blank custom card
MaxCustomIdx == 0
\* rotations of the player order that the per-round shuffle ranges over
MaxShuffle == 1
\* candidates (in submission order) a vote ranges over
MaxVoteTargets == 1
\* texts the text-generation service answers with, besides the fallback
MaxGenTexts == 0
\* in the specification of the dealing: rotations of the player order that
\* the per-round shuffle ranges over, each with and without an exchange
MaxDealShuffle == 5
\* in the specification of the dealing: hand positions at which dealCards
\* may put the blank custom card
MaxDealCustomIdx == 1

(* Program constants *)

maxPlayers == 5
roundsToPlay == 3
totalPlayersNeeded == 5
HandSize == 3
CUSTOM_CARD_ID_START == 10000

---------------------------------------------------------------------------
(* shared/schema.ts *)

LOBBY == "lobby"
ACTIVE == "active"
GAME_COMPLETED == "completed"

WAITING == "waiting"
SELECTION == "selection"
STORYTELLING == "storytelling"
VOTING == "voting"
RESULTS == "results"
ROUND_COMPLETED == "completed"

\* the order of `types` in assignCardTypes
types == <<"location", "character", "initialTwist", "escalation", "finalTwist">>

\* null / undefined
NoCard == 0
NoMoral == "<null>"
NoType == "<undefined>"

Humans == 1 .. MaxHumans
\* ids of the simulated participants addAIPlayers creates (fresh uuids)
AIId(i) == 10 + i

---------------------------------------------------------------------------
(* Sequence helpers *)

Range(s) == {s[i] : i \in 1 .. Len(s)}

\* Array.prototype.findIndex on ids; 0 when absent
IndexOf(ps, pid) ==
  IF \E i \in 1 .. Len(ps) : ps[i].id = pid
  THEN CHOOSE i \in 1 .. Len(ps) :
         ps[i].id = pid /\ \A j \in 1 .. i - 1 : ps[j].id # pid
  ELSE 0

\* Array.prototype.splice(i, 1)
RemoveAt(s, i) == SubSeq(s, 1, i - 1) \o SubSeq(s, i + 1, Len(s))

RECURSIVE SumSeq(_)
SumSeq(s) == IF s = <<>> THEN 0 ELSE Head(s) + SumSeq(Tail(s))

HasPlayer(ps, pid) == IndexOf(ps, pid) # 0
PlayerOf(ps, pid) == ps[IndexOf(ps, pid)]
HasSubmission(subs, pid) == \E i \in 1 .. Len(subs) : subs[i].playerId = pid
SubmissionOf(subs, pid) == subs[IndexOf([i \in 1 .. Len(subs) |-> [id |-> subs[i].playerId]], pid)]

HumanPlayers(ps) == SelectSeq(ps, LAMBDA p : ~p.isAI)
AIPlayers(ps) == SelectSeq(ps, LAMBDA p : p.isAI)

InFlight == Len(selCalls) + Len(genCalls) + Len(voteTrigs)

---------------------------------------------------------------------------
(* Card data (loadCardData) and dealing *)

TypeIndex(t) == CHOOSE i \in 1 .. Len(types) : types[i] = t

\* the text of the k-th card of a deck; texts differ in length
CardText(k) ==
  IF k = 1 THEN "a" ELSE IF k = 2 THEN "bb" ELSE IF k = 3 THEN "ccc" ELSE "dddd"

\* cardData[<type>Cards]: DeckSize cards per type, ids unique over all decks
Deck(t) ==
  [k \in 1 .. DeckSize |->
     [id |-> 100 * TypeIndex(t) + k, text |-> CardText(k),
      type |-> t, isCustom |-> FALSE]]

DeckFor(t) == IF t \in Range(types) THEN Deck(t) ELSE <<>>

Min(a, b) == IF a < b THEN a ELSE b
Max(a, b) == IF a > b THEN a ELSE b

\* The outcomes of the shuffle in getRandomCards, as the deck positions of
\* the cards drawn.  The draws are the selections in deck order.
DrawIndexes(len, count) ==
  {g \in [1 .. Min(count, len) -> 1 .. len] :
     \A i, j \in 1 .. Min(count, len) : i < j => g[i] < g[j]}

\* getRandomCards(deck, count) for the shuffle outcome f
getRandomCards(deck, f) == [i \in DOMAIN f |-> deck[f[i]]]

createBlankCard(t, id) ==
  [id |-> id, text |-> "", type |-> t, isCustom |-> TRUE]

\* The outcomes of the shuffle in assignCardTypes: rotations of 1..n
ShuffleChoices(n) ==
  {[i \in 1 .. n |-> ((i - 1 + k) % n) + 1] : k \in 0 .. MaxShuffle - 1}

\* More outcomes of the shuffle in assignCardTypes: the first rotations of
\* 1..n, and each of them with its first two entries exchanged
ShuffleOutcomes(n) ==
  LET rotation(k) == [i \in 1 .. n |-> ((i - 1 + k) % n) + 1]
      exchanged(f) == [i \in 1 .. n |->
                         IF n >= 2 /\ i = 1 THEN f[2]
                         ELSE IF n >= 2 /\ i = 2 THEN f[1] ELSE f[i]]
  IN  UNION {{rotation(k), exchanged(rotation(k))} : k \in 0 .. MaxDealShuffle - 1}

\* assignCardTypes that rotates over the first four of the types only
assignCardTypesFourTypes(ps, number, shuffledIndexes) ==
  LET roundOffset == (number - 1) % Len(types)
      pos(j) == CHOOSE i \in 1 .. Len(ps) : shuffledIndexes[i] = j
  IN  [j \in 1 .. Len(ps) |->
         [ps[j] EXCEPT !.cardType = types[((pos(j) - 1 + roundOffset) % (Len(types) - 1)) + 1]]]

\* assignCardTypes: the player at shuffledIndexes[i] gets
\* types[(i + roundOffset) % types.length] (0-based in the source)
assignCardTypes(ps, number, shuffledIndexes) ==
  LET roundOffset == (number - 1) % Len(types)
      pos(j) == CHOOSE i \in 1 .. Len(ps) : shuffledIndexes[i] = j
  IN  [j \in 1 .. Len(ps) |->
         [ps[j] EXCEPT !.cardType = types[((pos(j) - 1 + roundOffset) % Len(types)) + 1]]]

\* Random outcomes of dealCards: for each player the draw from its deck and
\* the hand position (0: none, else one of customIdxs) that a blank custom
\* card replaces, which happens to humans only.
DealOutcomes(ps, customIdxs) ==
  {d \in [draw : [1 .. Len(ps) -> DrawIndexes(DeckSize, HandSize)],
          custom : [1 .. Len(ps) -> {0} \cup customIdxs]] :
     \A i \in 1 .. Len(ps) : ps[i].isAI => d.custom[i] = 0}

\* The random outcomes of dealCards
DealChoices(ps) == DealOutcomes(ps, 1 .. MaxCustomIdx)

\* dealCards that adds the blank custom card to the hand instead of
\* replacing a card with it
dealCardsAddsBlank(ps, d) ==
  LET customsBefore(i) == Cardinality({j \in 1 .. i - 1 : d.custom[j] # 0})
      drawn(i) == getRandomCards(DeckFor(ps[i].cardType), d.draw[i])
      handOf(i) ==
        IF d.custom[i] = 0 THEN drawn(i)
        ELSE Append(drawn(i),
                    createBlankCard(ps[i].cardType, CUSTOM_CARD_ID_START + customsBefore(i)))
  IN  [i \in 1 .. Len(ps) |-> [ps[i] EXCEPT !.hand = handOf(i)]]

\* dealCards: nextCustomCardId++ in forEach order
dealCards(ps, d) ==
  LET customsBefore(i) == Cardinality({j \in 1 .. i - 1 : d.custom[j] # 0})
      drawn(i) == getRandomCards(DeckFor(ps[i].cardType), d.draw[i])
      handOf(i) ==
        IF d.custom[i] = 0 THEN drawn(i)
        ELSE [drawn(i) EXCEPT ![d.custom[i]] =
                createBlankCard(ps[i].cardType, CUSTOM_CARD_ID_START + customsBefore(i))]
  IN  [i \in 1 .. Len(ps) |-> [ps[i] EXCEPT !.hand = handOf(i)]]

\* A game is the record [status, players, round].
Game == [status |-> status, players |-> players, round |-> round]

\* the reset of startNewRound without its reset of hasVoted
ResetPlayersKeepsVoted(ps) ==
  [i \in 1 .. Len(ps) |->
     [ps[i] EXCEPT !.selectedCard = NoCard, !.submittedMoral = NoMoral]]

\* the reset of startNewRound without its reset of selectedCard
ResetPlayersKeepsSelection(ps) ==
  [i \in 1 .. Len(ps) |->
     [ps[i] EXCEPT !.submittedMoral = NoMoral, !.hasVoted = FALSE]]

\* startNewRound: the reset of every player's round state
ResetPlayers(ps) ==
  [i \in 1 .. Len(ps) |->
     [ps[i] EXCEPT !.selectedCard = NoCard, !.submittedMoral = NoMoral,
                   !.hasVoted = FALSE]]

\* startNewRound(gameId): the games it can leave, one per outcome of the
\* shuffle in assignCardTypes (among shuffles[n] for n players) and of the
\* draws in dealCards (custom positions among customIdxs)
startNewRoundAmong(g, shuffles, customIdxs) ==
  IF g.status = GAME_COMPLETED THEN {g}
  ELSE IF g.round.number >= roundsToPlay
  THEN {[g EXCEPT !.status = GAME_COMPLETED, !.round.status = ROUND_COMPLETED]}
  ELSE
    LET number == IF g.round.status # WAITING THEN g.round.number + 1
                  ELSE g.round.number
        rnd == [number |-> number, status |-> SELECTION, story |-> "",
                submissions |-> <<>>]
        reset == ResetPlayers(g.players)
    IN  UNION {
          LET typed == assignCardTypes(reset, number, sh)
          IN  {[status |-> g.status, players |-> dealCards(typed, d), round |-> rnd] :
                 d \in DealOutcomes(typed, customIdxs)}
          : sh \in shuffles[Len(reset)]}

\* startNewRound(gameId): the games it can leave
startNewRoundOutcomes(g) ==
  startNewRoundAmong(g, [n \in 1 .. maxPlayers |-> ShuffleChoices(n)], 1 .. MaxCustomIdx)

---------------------------------------------------------------------------
(* Story assembly *)

RECURSIVE Join(_, _)
\* Array.prototype.join
Join(parts, sep) ==
  IF parts = <<>> THEN ""
  ELSE IF Len(parts) = 1 THEN parts[1]
  ELSE parts[1] \o sep \o Join(Tail(parts), sep)

\* text || fallback
OrElse(text, default) == IF text = "" THEN default ELSE text

HandHas(p, cardId) == \E k \in 1 .. Len(p.hand) : p.hand[k].id = cardId
\* Array.prototype.find on the hand
HandCard(p, cardId) ==
  p.hand[CHOOSE k \in 1 .. Len(p.hand) :
           p.hand[k].id = cardId /\ \A m \in 1 .. k - 1 : p.hand[m].id # cardId]

\* assembleStory: selectedCards[type], set in players.forEach order, so the
\* last player of a type that selected a card of its hand wins
SelectedOfType(ps, t) ==
  LET cands == {i \in 1 .. Len(ps) :
                  /\ ps[i].selectedCard # NoCard
                  /\ ps[i].cardType = t
                  /\ HandHas(ps[i], ps[i].selectedCard)}
  IN  IF cands = {} THEN <<>>
      ELSE LET i == CHOOSE c \in cands : \A o \in cands : o <= c
           IN  <<HandCard(ps[i], ps[i].selectedCard)>>

StoryOf(ps) ==
  LET part(t, prefix, default) ==
        LET c == SelectedOfType(ps, t)
        IN  IF c = <<>> THEN <<>> ELSE <<prefix \o OrElse(c[1].text, default)>>
  IN  Join(part("location", "In a ", "a mysterious place")
           \o part("character", ", a ", "strange character")
           \o part("initialTwist", " NOTICES ", "something unusual")
           \o part("escalation", ". But then, ", "the situation escalates")
           \o part("finalTwist", " ALL BECAUSE ", "a final twist occurs"),
           " ")

NewSubmissions(ps) ==
  [i \in 1 .. Len(ps) |->
     [playerId |-> ps[i].id, cardId |-> ps[i].selectedCard, moral |-> NoMoral,
      votes |-> 0, hasVoted |-> FALSE]]

assembleStory(g) ==
  [g EXCEPT !.round.story = StoryOf(g.players),
            !.round.submissions = NewSubmissions(g.players)]

AllSelected(ps) == \A i \in 1 .. Len(ps) : ps[i].selectedCard # NoCard

\* the check that ends selectCard, makeAISelections and removePlayer's
\* selection branch
AdvanceIfAllSelected(g) ==
  IF AllSelected(g.players)
  THEN [assembleStory(g) EXCEPT !.round.status = STORYTELLING]
  ELSE g

---------------------------------------------------------------------------
(* Card selection *)

\* updateCustomCard of the manager: [ok, game]
updateCustomCard(g, playerId, cardId, customText) ==
  IF g.round.status # SELECTION \/ ~HasPlayer(g.players, playerId)
  THEN [ok |-> FALSE, game |-> g]
  ELSE
    LET i == IndexOf(g.players, playerId)
        hand == g.players[i].hand
        found == {k \in 1 .. Len(hand) : hand[k].id = cardId /\ hand[k].isCustom}
    IN  IF found = {} THEN [ok |-> FALSE, game |-> g]
        ELSE LET k == CHOOSE c \in found : \A o \in found : c <= o
             IN  [ok |-> TRUE,
                  game |-> [g EXCEPT !.players[i].hand[k].text = customText]]

\* selectCard without its check of the phase
selectCardAnyPhase(g, playerId, cardId, customText) ==
  IF ~HasPlayer(g.players, playerId)
  THEN [ok |-> FALSE, game |-> g]
  ELSE
    LET i == IndexOf(g.players, playerId)
        hand == g.players[i].hand
        found == {k \in 1 .. Len(hand) : hand[k].id = cardId}
    IN  IF found = {} THEN [ok |-> FALSE, game |-> g]
        ELSE
          LET k == CHOOSE c \in found : \A o \in found : c <= o
              g1 == IF hand[k].isCustom /\ customText # ""
                    THEN [g EXCEPT !.players[i].hand[k].text = customText]
                    ELSE g
              g2 == [g1 EXCEPT !.players[i].selectedCard = cardId]
          IN  [ok |-> TRUE, game |-> AdvanceIfAllSelected(g2)]

\* selectCard without its search of the card in the player's hand
selectCardAnyCard(g, playerId, cardId, customText) ==
  IF g.round.status # SELECTION \/ ~HasPlayer(g.players, playerId)
  THEN [ok |-> FALSE, game |-> g]
  ELSE
    LET i == IndexOf(g.players, playerId)
        g2 == [g EXCEPT !.players[i].selectedCard = cardId]
    IN  [ok |-> TRUE, game |-> AdvanceIfAllSelected(g2)]

\* selectCard of the manager: [ok, game]; customText "" is "not provided"
selectCard(g, playerId, cardId, customText) ==
  IF g.round.status # SELECTION \/ ~HasPlayer(g.players, playerId)
  THEN [ok |-> FALSE, game |-> g]
  ELSE
    LET i == IndexOf(g.players, playerId)
        hand == g.players[i].hand
        found == {k \in 1 .. Len(hand) : hand[k].id = cardId}
    IN  IF found = {} THEN [ok |-> FALSE, game |-> g]
        ELSE
          LET k == CHOOSE c \in found : \A o \in found : c <= o
              g1 == IF hand[k].isCustom /\ customText # ""
                    THEN [g EXCEPT !.players[i].hand[k].text = customText]
                    ELSE g
              g2 == [g1 EXCEPT !.players[i].selectedCard = cardId]
          IN  [ok |-> TRUE, game |-> AdvanceIfAllSelected(g2)]

\* makeAISelections up to its timers: the simulated participants that get a
\* timer (none outside the selection phase)
pendingAIPlayers(g) ==
  IF g.round.status # SELECTION THEN {}
  ELSE {g.players[i].id : i \in
          {j \in 1 .. Len(g.players) :
             /\ g.players[j].isAI
             /\ g.players[j].selectedCard = NoCard
             /\ Len(g.players[j].hand) > 0}}

---------------------------------------------------------------------------
(* Morals *)

\* ai-service.ts, generateFallbackMoral
fallbackMorals ==
  << "In life's twisted game, the cards we're dealt matter less than how we choose to play them.",
     "Sometimes the most frightening monsters are the ones we create in our own minds.",
     "Be careful what you wish for-the universe has a peculiar sense of humor.",
     "Reality is merely a thin veil, easily torn by those who look too closely.",
     "In trying to control fate, we often become puppets of our own design.",
     "The greatest deception is the one we perpetrate upon ourselves.",
     "The boundaries between imagination and reality are but shadows on the wall.",
     "Destiny follows no script but the one written by our choices.",
     "The key to wisdom is knowing that some doors are better left unopened.",
     "In the twilight between logic and fear lies the truth we dare not face." >>

\* generateFallbackMoral that returns the first entry for every story
generateFallbackMoralFirst(story) == fallbackMorals[1]

generateFallbackMoral(story) == fallbackMorals[(Len(story) % Len(fallbackMorals)) + 1]

\* what generateAIMoral(story) can resolve to: the model's text, or the
\* fallback (no key, rate limit, failure, timeout); it never rejects
generateAIMoral(story) ==
  {generateFallbackMoral(story)}
  \cup {<<"All clocks lie.", "Time keeps no promises.">>[k] : k \in 1 .. Min(MaxGenTexts, 2)}

\* !value for a moral: null and "" are falsy
Falsy(m) == m = NoMoral \/ m = ""

SetSubmissionMoral(subs, pid, m) ==
  IF HasSubmission(subs, pid)
  THEN LET k == CHOOSE c \in 1 .. Len(subs) :
                  subs[c].playerId = pid /\ \A o \in 1 .. c - 1 : subs[o].playerId # pid
       IN  [subs EXCEPT ![k].moral = m]
  ELSE subs

\* submitMoral that advances to voting without its check that every
\* submission and every player has a moral
submitMoralAdvancesUnchecked(g, playerId, moral) ==
  IF \/ g.round.status # STORYTELLING
     \/ ~HasPlayer(g.players, playerId)
     \/ ~HasSubmission(g.round.submissions, playerId)
  THEN [ok |-> FALSE, game |-> g]
  ELSE
    LET i == IndexOf(g.players, playerId)
    IN  [ok |-> TRUE,
         game |-> [g EXCEPT !.round.submissions = SetSubmissionMoral(@, playerId, moral),
                            !.players[i].submittedMoral = moral,
                            !.round.status = VOTING]]

\* submitMoral of the manager: [ok, game]
submitMoral(g, playerId, moral) ==
  IF \/ g.round.status # STORYTELLING
     \/ ~HasPlayer(g.players, playerId)
     \/ ~HasSubmission(g.round.submissions, playerId)
  THEN [ok |-> FALSE, game |-> g]
  ELSE
    LET i == IndexOf(g.players, playerId)
        g1 == [g EXCEPT !.round.submissions = SetSubmissionMoral(@, playerId, moral),
                        !.players[i].submittedMoral = moral]
        allSubmissionsHaveMorals ==
          \A k \in 1 .. Len(g1.round.submissions) : g1.round.submissions[k].moral # NoMoral
        allPlayersHaveMorals ==
          \A k \in 1 .. Len(g1.players) : g1.players[k].submittedMoral # NoMoral
    IN  [ok |-> TRUE,
         game |-> IF allSubmissionsHaveMorals /\ allPlayersHaveMorals
                  THEN [g1 EXCEPT !.round.status = VOTING]
                  ELSE g1]

\* generateAIMorals after its loop: the advance to voting, then the failsafe
generateAIMoralsFinish(g) ==
  LET ps == g.players
      humanPlayersWithMorals ==
        Cardinality({i \in 1 .. Len(ps) : ~ps[i].isAI /\ ~Falsy(ps[i].submittedMoral)})
      humanPlayersTotal == Cardinality({i \in 1 .. Len(ps) : ~ps[i].isAI})
      allSubmissionsHaveMorals ==
        \A k \in 1 .. Len(g.round.submissions) : g.round.submissions[k].moral # NoMoral
      g1 == IF humanPlayersWithMorals = humanPlayersTotal /\ allSubmissionsHaveMorals
            THEN [g EXCEPT !.round.status = VOTING]
            ELSE g
      defaultMoral == "The moral is: some stories write themselves."
      fix == {i \in 1 .. Len(ps) : ps[i].isAI /\ Falsy(ps[i].submittedMoral)}
      RECURSIVE FixSubs(_, _)
      FixSubs(subs, i) ==
        IF i > Len(ps) THEN subs
        ELSE FixSubs(IF i \in fix THEN SetSubmissionMoral(subs, ps[i].id, defaultMoral)
                     ELSE subs, i + 1)
  IN  [g1 EXCEPT !.players = [i \in 1 .. Len(ps) |->
                                IF i \in fix
                                THEN [ps[i] EXCEPT !.submittedMoral = defaultMoral]
                                ELSE ps[i]],
                 !.round.submissions = FixSubs(@, 1)]

\* generateAIMorals: its for-of loop over game.players from array position
\* `from`, up to the next await or to the end: [game, calls], where calls
\* holds the call now awaiting generateAIMoral for players[idx], if any
generateAIMoralsLoop(g, from) ==
  LET need == {i \in from .. Len(g.players) :
                 g.players[i].isAI /\ Falsy(g.players[i].submittedMoral)}
  IN  IF need = {}
      THEN [game |-> generateAIMoralsFinish(g), calls |-> <<>>]
      ELSE LET i == CHOOSE c \in need : \A o \in need : c <= o
           IN  [game |-> g,
                calls |-> <<[idx |-> i, pid |-> g.players[i].id,
                             story |-> g.round.story]>>]

\* generateAIMorals after `await generateAIMoral(story)` resolved to moral:
\* the captured player gets it, whatever the phase now is
generateAIMoralsResume(g, call, moral) ==
  LET i == IndexOf(g.players, call.pid)
      g1 == [g EXCEPT !.players[i].submittedMoral = moral,
                      !.round.submissions = SetSubmissionMoral(@, call.pid, moral)]
  IN  generateAIMoralsLoop(g1, call.idx + 1)

---------------------------------------------------------------------------
(* Voting and round resolution *)

SubIndex(subs, pid) ==
  CHOOSE c \in 1 .. Len(subs) :
    subs[c].playerId = pid /\ \A o \in 1 .. c - 1 : subs[o].playerId # pid

\* castVote: the voter's submission and the voter are marked
MarkVoted(g, pid) ==
  IF HasSubmission(g.round.submissions, pid)
  THEN [g EXCEPT !.round.submissions[SubIndex(g.round.submissions, pid)].hasVoted = TRUE,
                 !.players[IndexOf(g.players, pid)].hasVoted = TRUE]
  ELSE g

AddVote(g, pid) ==
  [g EXCEPT !.round.submissions[SubIndex(g.round.submissions, pid)].votes = @ + 1]

\* castVote: humanPlayersWhoVoted >= humanPlayers.length
AllHumansVoted(g) ==
  LET humanPlayers == {i \in 1 .. Len(g.players) : ~g.players[i].isAI}
      humanPlayersWhoVoted ==
        {k \in 1 .. Len(g.round.submissions) :
           /\ HasPlayer(g.players, g.round.submissions[k].playerId)
           /\ ~PlayerOf(g.players, g.round.submissions[k].playerId).isAI
           /\ g.round.submissions[k].hasVoted}
  IN  Cardinality(humanPlayersWhoVoted) >= Cardinality(humanPlayers)

\* castVote of the manager: [ok, game, trigger]; trigger: makeAIVotes is
\* called and the endRound timer is set
castVote(g, voterId, votedForId) ==
  IF \/ g.round.status # VOTING
     \/ ~HasPlayer(g.players, voterId)
     \/ ~HasPlayer(g.players, votedForId)
     \/ voterId = votedForId
     \/ ~HasSubmission(g.round.submissions, votedForId)
  THEN [ok |-> FALSE, game |-> g, trigger |-> FALSE]
  ELSE LET g1 == AddVote(MarkVoted(g, voterId), votedForId)
       IN  [ok |-> TRUE, game |-> g1, trigger |-> AllHumansVoted(g1)]

\* simulateAIVote with its filter inverted: it keeps the voter's own
\* submission only
simulateAIVoteOwn(subs, aiPlayerId) ==
  LET votable == SelectSeq(subs, LAMBDA sub : sub.playerId = aiPlayerId)
  IN  {votable[k].playerId : k \in 1 .. Min(Len(votable), MaxVoteTargets)}

\* simulateAIVote: the ids it can return.  Every submission but the voter's
\* own has a positive weight, so each of them can be drawn.
simulateAIVote(subs, aiPlayerId) ==
  LET votable == SelectSeq(subs, LAMBDA sub : sub.playerId # aiPlayerId)
  IN  {votable[k].playerId : k \in 1 .. Min(Len(votable), MaxVoteTargets)}

\* the inner timer callback of makeAIVotes for aiPlayer, voting for
\* votedForId (a member of simulateAIVote, or NoCard when that is empty)
aiVote(g, aiPlayerId, votedForId) ==
  LET g1 == MarkVoted(g, aiPlayerId)
  IN  IF votedForId # 0 /\ HasSubmission(g1.round.submissions, votedForId)
      THEN AddVote(g1, votedForId)
      ELSE g1

\* endRound: the tally over the submissions
AddScores(ps, subs) ==
  [i \in 1 .. Len(ps) |->
     [ps[i] EXCEPT !.score =
        @ + SumSeq([k \in 1 .. Len(subs) |->
                      IF subs[k].playerId = ps[i].id THEN subs[k].votes ELSE 0])]]

\* endRound without its check of the round number against roundsToPlay
endRoundNeverCompletes(g) ==
  IF g.round.status = RESULTS THEN g
  ELSE [g EXCEPT !.players = AddScores(@, g.round.submissions),
                 !.round.status = RESULTS]

\* endRound(gameId) on an existing game
endRound(g) ==
  IF g.round.status = RESULTS THEN g
  ELSE
    \* any other phase is forced to voting and resolved
    LET g1 == [g EXCEPT !.players = AddScores(@, g.round.submissions),
                        !.round.status = RESULTS]
    IN  IF g1.round.number >= roundsToPlay
        THEN [g1 EXCEPT !.status = GAME_COMPLETED]
        ELSE g1

---------------------------------------------------------------------------
(* Leaving *)

\* removePlayer that keeps the game in the registry when its last player
\* has left
removePlayerKeepsGame(g, playerId) ==
  IF ~HasPlayer(g.players, playerId)
  THEN [ok |-> FALSE, deleted |-> FALSE, game |-> g]
  ELSE [ok |-> TRUE, deleted |-> FALSE,
        game |-> [g EXCEPT !.players = RemoveAt(g.players, IndexOf(g.players, playerId))]]

\* removePlayer without its check that a human participant is left
removePlayerNeverCompletes(g, playerId) ==
  IF ~HasPlayer(g.players, playerId)
  THEN [ok |-> FALSE, deleted |-> FALSE, game |-> g]
  ELSE
    LET playerIndex == IndexOf(g.players, playerId)
        player == g.players[playerIndex]
        rest == RemoveAt(g.players, playerIndex)
        humans == {i \in 1 .. Len(rest) : ~rest[i].isAI}
        newHost == IF humans # {} THEN CHOOSE i \in humans : \A o \in humans : i <= o
                   ELSE 1
        ps1 == IF player.isHost /\ Len(rest) > 0
               THEN [rest EXCEPT ![newHost].isHost = TRUE]
               ELSE rest
        g1 == [g EXCEPT !.players = ps1]
    IN  IF Len(rest) = 0 THEN [ok |-> TRUE, deleted |-> TRUE, game |-> g1]
        ELSE IF g1.status # ACTIVE THEN [ok |-> TRUE, deleted |-> FALSE, game |-> g1]
        ELSE
          LET subs == g1.round.submissions
              g2 == IF HasSubmission(subs, playerId)
                    THEN [g1 EXCEPT !.round.submissions = RemoveAt(subs, SubIndex(subs, playerId))]
                    ELSE g1
              g3 == IF g2.round.status = SELECTION THEN AdvanceIfAllSelected(g2)
                    ELSE IF g2.round.status = STORYTELLING
                    THEN IF \A k \in 1 .. Len(g2.round.submissions) :
                              g2.round.submissions[k].moral # NoMoral
                         THEN [g2 EXCEPT !.round.status = VOTING]
                         ELSE g2
                    ELSE g2
          IN  [ok |-> TRUE, deleted |-> FALSE, game |-> g3]

\* removePlayer that leaves the submission of the removed player in place
removePlayerKeepsSubmission(g, playerId) ==
  IF ~HasPlayer(g.players, playerId)
  THEN [ok |-> FALSE, deleted |-> FALSE, game |-> g]
  ELSE
    LET playerIndex == IndexOf(g.players, playerId)
        player == g.players[playerIndex]
        rest == RemoveAt(g.players, playerIndex)
        humans == {i \in 1 .. Len(rest) : ~rest[i].isAI}
        newHost == IF humans # {} THEN CHOOSE i \in humans : \A o \in humans : i <= o
                   ELSE 1
        ps1 == IF player.isHost /\ Len(rest) > 0
               THEN [rest EXCEPT ![newHost].isHost = TRUE]
               ELSE rest
        g1 == [g EXCEPT !.players = ps1]
    IN  IF Len(rest) = 0 THEN [ok |-> TRUE, deleted |-> TRUE, game |-> g1]
        ELSE IF g1.status # ACTIVE THEN [ok |-> TRUE, deleted |-> FALSE, game |-> g1]
        ELSE
          LET g3 == IF humans = {} THEN [g1 EXCEPT !.status = GAME_COMPLETED]
                    ELSE IF g1.round.status = STORYTELLING
                    THEN IF \A k \in 1 .. Len(g1.round.submissions) :
                              g1.round.submissions[k].moral # NoMoral
                         THEN [g1 EXCEPT !.round.status = VOTING]
                         ELSE g1
                    ELSE g1
          IN  [ok |-> TRUE, deleted |-> FALSE, game |-> g3]

\* removePlayer that assigns no new host when the host leaves
removePlayerNoNewHost(g, playerId) ==
  IF ~HasPlayer(g.players, playerId)
  THEN [ok |-> FALSE, deleted |-> FALSE, game |-> g]
  ELSE
    LET playerIndex == IndexOf(g.players, playerId)
        player == g.players[playerIndex]
        rest == RemoveAt(g.players, playerIndex)
        humans == {i \in 1 .. Len(rest) : ~rest[i].isAI}
        newHost == IF humans # {} THEN CHOOSE i \in humans : \A o \in humans : i <= o
                   ELSE 1
        ps1 == rest
        g1 == [g EXCEPT !.players = ps1]
    IN  IF Len(rest) = 0 THEN [ok |-> TRUE, deleted |-> TRUE, game |-> g1]
        ELSE IF g1.status # ACTIVE THEN [ok |-> TRUE, deleted |-> FALSE, game |-> g1]
        ELSE
          LET subs == g1.round.submissions
              g2 == IF HasSubmission(subs, playerId)
                    THEN [g1 EXCEPT !.round.submissions = RemoveAt(subs, SubIndex(subs, playerId))]
                    ELSE g1
              g3 == IF humans = {} THEN [g2 EXCEPT !.status = GAME_COMPLETED]
                    ELSE IF g2.round.status = SELECTION THEN AdvanceIfAllSelected(g2)
                    ELSE IF g2.round.status = STORYTELLING
                    THEN IF \A k \in 1 .. Len(g2.round.submissions) :
                              g2.round.submissions[k].moral # NoMoral
                         THEN [g2 EXCEPT !.round.status = VOTING]
                         ELSE g2
                    ELSE g2
          IN  [ok |-> TRUE, deleted |-> FALSE, game |-> g3]

\* removePlayer on an existing game: [ok, deleted, game]
removePlayer(g, playerId) ==
  IF ~HasPlayer(g.players, playerId)
  THEN [ok |-> FALSE, deleted |-> FALSE, game |-> g]
  ELSE
    LET playerIndex == IndexOf(g.players, playerId)
        player == g.players[playerIndex]
        rest == RemoveAt(g.players, playerIndex)
        humans == {i \in 1 .. Len(rest) : ~rest[i].isAI}
        newHost == IF humans # {} THEN CHOOSE i \in humans : \A o \in humans : i <= o
                   ELSE 1
        ps1 == IF player.isHost /\ Len(rest) > 0
               THEN [rest EXCEPT ![newHost].isHost = TRUE]
               ELSE rest
        g1 == [g EXCEPT !.players = ps1]
    IN  IF Len(rest) = 0 THEN [ok |-> TRUE, deleted |-> TRUE, game |-> g1]
        ELSE IF g1.status # ACTIVE THEN [ok |-> TRUE, deleted |-> FALSE, game |-> g1]
        ELSE
          LET subs == g1.round.submissions
              g2 == IF HasSubmission(subs, playerId)
                    THEN [g1 EXCEPT !.round.submissions = RemoveAt(subs, SubIndex(subs, playerId))]
                    ELSE g1
              g3 == IF humans = {} THEN [g2 EXCEPT !.status = GAME_COMPLETED]
                    ELSE IF g2.round.status = SELECTION THEN AdvanceIfAllSelected(g2)
                    ELSE IF g2.round.status = STORYTELLING
                    THEN IF \A k \in 1 .. Len(g2.round.submissions) :
                              g2.round.submissions[k].moral # NoMoral
                         THEN [g2 EXCEPT !.round.status = VOTING]
                         ELSE g2
                    ELSE g2
          IN  [ok |-> TRUE, deleted |-> FALSE, game |-> g3]

---------------------------------------------------------------------------
(* The state machine *)

NoRound == [number |-> 0, status |-> WAITING, story |-> "", submissions |-> <<>>]

NewPlayer(id, ai, host) ==
  [id |-> id, isAI |-> ai, isHost |-> host, score |-> 0, cardType |-> NoType,
   hand |-> <<>>, selectedCard |-> NoCard, submittedMoral |-> NoMoral,
   hasVoted |-> FALSE]

\* new GameStateManager(): no game
\* callback({ success: true, ... }) and callback({ success: false, ... }) of
\* the handler of message type op
Ok(op) == [op |-> op, success |-> TRUE]
Failure(op) == [op |-> op, success |-> FALSE]

Init ==
  /\ gameExists = FALSE
  /\ status = LOBBY
  /\ players = <<>>
  /\ round = NoRound
  /\ nextId = 1
  /\ ack = Ok("none")
  /\ selCalls = <<>>
  /\ genCalls = <<>>
  /\ voteTrigs = <<>>
  /\ irregular = 0
  /\ tallies = 0

SetGame(g) ==
  /\ status' = g.status
  /\ players' = g.players
  /\ round' = g.round

\* a callback({ success: false, ... }) that follows no mutation
Fail(op) ==
  /\ ack' = Failure(op)
  /\ UNCHANGED <<gameExists, status, players, round, nextId, selCalls, genCalls, voteTrigs, irregular, tallies>>

\* socket.playerData names the game and a player that is still in it
InGame(a) == a < nextId /\ gameExists /\ HasPlayer(players, a)

\* a rejected operation ends the run: the state it leaves differs from the
\* state before it in the acknowledgment only, and what the session does
\* next is followed from the state before it
Following == ack.success

\* the timers of one call fire in the order of their participants: the delays
\* are random, every order is possible, and the order changes no outcome of
\* the call, so one order stands for all
FiresNext(ai, pending) == \A other \in pending : ai <= other

\* the bookkeeping of MaxIrregular: `counts` says the operation is irregular
Irregular(counts) ==
  /\ counts => irregular < MaxIrregular
  /\ irregular' = IF counts THEN irregular + 1 ELSE irregular

\* CREATE_GAME handler, createGame: the first socket creates the session
CreateGame ==
  /\ nextId = 1
  /\ ~gameExists
  /\ gameExists' = TRUE
  /\ SetGame([status |-> LOBBY, players |-> <<NewPlayer(nextId, FALSE, TRUE)>>,
              round |-> NoRound])
  /\ nextId' = nextId + 1
  /\ ack' = Ok("CREATE_GAME")
  /\ UNCHANGED <<selCalls, genCalls, voteTrigs, irregular, tallies>>

\* joinGame without its check that the session is not full
joinGameUnbounded(g, id) ==
  IF g.status # LOBBY
  THEN [ok |-> FALSE, game |-> g]
  ELSE [ok |-> TRUE,
        game |-> [g EXCEPT !.players = Append(@, NewPlayer(id, FALSE, FALSE))]]

\* joinGame of the manager on an existing game: [ok, game]
joinGame(g, id) ==
  IF g.status # LOBBY \/ Len(g.players) >= maxPlayers
  THEN [ok |-> FALSE, game |-> g]
  ELSE [ok |-> TRUE,
        game |-> [g EXCEPT !.players = Append(@, NewPlayer(id, FALSE, FALSE))]]

\* JOIN_GAME handler: a new socket joins under a fresh player id
JoinGame ==
  /\ Following
  /\ nextId > 1
  /\ nextId <= MaxHumans
  /\ IF gameExists /\ joinGame(Game, nextId).ok
     THEN /\ SetGame(joinGame(Game, nextId).game)
          /\ nextId' = nextId + 1
          /\ ack' = Ok("JOIN_GAME")
          /\ UNCHANGED <<gameExists, selCalls, genCalls, voteTrigs, irregular, tallies>>
     ELSE Fail("JOIN_GAME")

\* addAIPlayers that fills the session to one participant short of five
addAIPlayersOneShort(g) ==
  LET aiCount == Max(0, totalPlayersNeeded - 1 - Len(g.players))
  IN  [g EXCEPT !.players = @ \o [i \in 1 .. aiCount |-> NewPlayer(AIId(i), TRUE, FALSE)]]

\* addAIPlayers
addAIPlayers(g) ==
  LET currentHumanCount == Len(g.players)
      aiCountNeeded == totalPlayersNeeded - currentHumanCount
      availableSlots == maxPlayers - currentHumanCount
      aiCount == Min(availableSlots, Max(0, aiCountNeeded))
  IN  [g EXCEPT !.players = @ \o [i \in 1 .. aiCount |-> NewPlayer(AIId(i), TRUE, FALSE)]]

\* startGame that numbers the first round 2
startGameAmongRoundTwo(g, shuffles, customIdxs) ==
  IF g.status # LOBBY \/ Len(g.players) < 1 THEN {}
  ELSE startNewRoundAmong([addAIPlayers(g) EXCEPT !.status = ACTIVE, !.round.number = 2],
                          shuffles, customIdxs)

\* startGame of the manager on an existing game: the games it can leave
\* (none: it returns false), for the random outcomes of startNewRoundAmong
startGameAmong(g, shuffles, customIdxs) ==
  IF g.status # LOBBY \/ Len(g.players) < 1 THEN {}
  ELSE startNewRoundAmong([addAIPlayers(g) EXCEPT !.status = ACTIVE, !.round.number = 1],
                          shuffles, customIdxs)

\* startGame of the manager on an existing game: the games it can leave
startGame(g) ==
  startGameAmong(g, [n \in 1 .. maxPlayers |-> ShuffleChoices(n)], 1 .. MaxCustomIdx)

\* START_GAME handler
StartGame(a) ==
  /\ Following
  /\ a < nextId
  /\ IF InGame(a) /\ PlayerOf(players, a).isHost /\ startGame(Game) # {}
     THEN /\ \E g \in startGame(Game) : SetGame(g)
          /\ ack' = Ok("START_GAME")
          /\ UNCHANGED <<gameExists, nextId, selCalls, genCalls, voteTrigs, irregular, tallies>>
     ELSE Fail("START_GAME")

\* the card ids a client sends: cards of its hand, or an id of no card
CardChoices(a) ==
  {999} \cup
  (IF InGame(a)
   THEN {PlayerOf(players, a).hand[k].id :
           k \in 1 .. Min(MaxPick, Len(PlayerOf(players, a).hand))}
   ELSE {})

\* UPDATE_CUSTOM_CARD handler
UpdateCustomCard(a, cardId, customText) ==
  /\ Following
  /\ a < nextId
  /\ IF InGame(a) /\ customText # "" /\ updateCustomCard(Game, a, cardId, customText).ok
     THEN /\ SetGame(updateCustomCard(Game, a, cardId, customText).game)
          /\ ack' = Ok("UPDATE_CUSTOM_CARD")
          /\ UNCHANGED <<gameExists, nextId, selCalls, genCalls, voteTrigs, irregular, tallies>>
     ELSE Fail("UPDATE_CUSTOM_CARD")

\* SELECT_CARD handler: selectCard, then makeAISelections up to its timers
\* if someone has not selected, else generateAIMorals up to its first await
SelectCard(a, cardId, customText) ==
  /\ Following
  /\ a < nextId
  /\ IF InGame(a) /\ selectCard(Game, a, cardId, customText).ok
     THEN LET g == selectCard(Game, a, cardId, customText).game
              pend == pendingAIPlayers(g)
              gl == generateAIMoralsLoop(g, 1)
          IN  /\ ack' = Ok("SELECT_CARD")
              /\ IF ~AllSelected(g.players)
                 THEN /\ SetGame(g)
                      /\ selCalls' = IF pend = {} THEN selCalls
                                     ELSE Append(selCalls, [pending |-> pend])
                      /\ UNCHANGED genCalls
                 ELSE IF g.round.status = STORYTELLING
                 THEN /\ SetGame(gl.game)
                      /\ genCalls' = genCalls \o gl.calls
                      /\ UNCHANGED selCalls
                 ELSE /\ SetGame(g)
                      /\ UNCHANGED <<selCalls, genCalls>>
              /\ UNCHANGED <<gameExists, nextId, voteTrigs>>
              /\ Irregular(PlayerOf(players, a).selectedCard # NoCard)
              /\ UNCHANGED tallies
              /\ InFlight' <= MaxInFlight
     ELSE Fail("SELECT_CARD")

\* a timer of makeAISelections fires for simulated participant ai of call k,
\* and Math.random() picks hand position idx; the last timer of the call
\* resolves Promise.all and runs the rest of makeAISelections
AISelectFire(k, ai, idx) ==
  /\ Following
  /\ k \in 1 .. Len(selCalls)
  /\ ai \in selCalls[k].pending
  /\ FiresNext(ai, selCalls[k].pending)
  /\ LET left == selCalls[k].pending \ {ai}
         i == IndexOf(players, ai)
         g1 == IF Len(players[i].hand) > 0
               THEN [Game EXCEPT !.players[i].selectedCard =
                                    players[i].hand[Min(idx, Len(players[i].hand))].id]
               ELSE Game
     IN  /\ selCalls' = IF left = {} THEN RemoveAt(selCalls, k)
                        ELSE [selCalls EXCEPT ![k].pending = left]
         /\ IF gameExists
            THEN SetGame(IF left = {} THEN AdvanceIfAllSelected(g1) ELSE g1)
            ELSE UNCHANGED <<status, players, round>>
  /\ UNCHANGED <<gameExists, nextId, ack, genCalls, voteTrigs, irregular, tallies>>

\* SUBMIT_MORAL handler: submitMoral, then generateAIMorals up to its first
\* await if the phase is still storytelling
SubmitMoral(a, moral) ==
  /\ Following
  /\ a < nextId
  /\ IF InGame(a) /\ moral # "" /\ submitMoral(Game, a, moral).ok
     THEN LET g == submitMoral(Game, a, moral).game
              gl == generateAIMoralsLoop(g, 1)
          IN  /\ ack' = Ok("SUBMIT_MORAL")
              /\ IF g.round.status = STORYTELLING
                 THEN /\ SetGame(gl.game)
                      /\ genCalls' = genCalls \o gl.calls
                 ELSE /\ SetGame(g)
                      /\ UNCHANGED genCalls
              /\ UNCHANGED <<gameExists, nextId, selCalls, voteTrigs>>
              /\ Irregular(PlayerOf(players, a).submittedMoral # NoMoral)
              /\ UNCHANGED tallies
              /\ InFlight' <= MaxInFlight
     ELSE Fail("SUBMIT_MORAL")

\* generateAIMoral resolves to moral for call k of generateAIMorals, which
\* runs on to its next await or to its end
GenerateResume(k, moral) ==
  /\ Following
  /\ k \in 1 .. Len(genCalls)
  /\ moral \in generateAIMoral(genCalls[k].story)
  /\ IF gameExists
     THEN LET r == generateAIMoralsResume(Game, genCalls[k], moral)
          IN  /\ SetGame(r.game)
              /\ genCalls' = SubSeq(genCalls, 1, k - 1) \o r.calls
                             \o SubSeq(genCalls, k + 1, Len(genCalls))
     ELSE /\ genCalls' = RemoveAt(genCalls, k)
          /\ UNCHANGED <<status, players, round>>
  /\ UNCHANGED <<gameExists, nextId, ack, selCalls, voteTrigs, irregular, tallies>>

\* the ids a client votes for: its own, or one of the first other players
VoteChoices(a) ==
  {a} \cup
  (IF InGame(a)
   THEN LET others == SelectSeq(players, LAMBDA p : p.id # a)
        IN  {others[k].id : k \in 1 .. Min(MaxVoteTargets, Len(others))}
   ELSE {})

\* CAST_VOTE handler: its own checks, castVote, and on the trigger
\* makeAIVotes (one timer per simulated participant) and the endRound timer
CastVote(a, votedForId) ==
  /\ Following
  /\ a < nextId
  /\ IF /\ InGame(a)
        /\ a # votedForId
        /\ round.status = VOTING
        /\ HasSubmission(round.submissions, votedForId)
        /\ ~Falsy(SubmissionOf(round.submissions, votedForId).moral)
        /\ castVote(Game, a, votedForId).ok
     THEN LET r == castVote(Game, a, votedForId)
              ais == {players[i].id : i \in {j \in 1 .. Len(players) : players[j].isAI}}
          IN  /\ Irregular(PlayerOf(players, a).hasVoted)
              /\ UNCHANGED tallies
              /\ SetGame(r.game)
              /\ ack' = Ok("CAST_VOTE")
              /\ voteTrigs' = IF r.trigger
                              THEN Append(voteTrigs, [ai |-> ais, end |-> TRUE,
                                                      number |-> round.number])
                              ELSE voteTrigs
              /\ UNCHANGED <<gameExists, nextId, selCalls, genCalls>>
              /\ InFlight' <= MaxInFlight
     ELSE Fail("CAST_VOTE")

\* the inner timer of makeAIVotes fires for simulated participant ai of
\* trigger k; simulateAIVote draws votedForId
AIVoteFire(k, ai, votedForId) ==
  /\ Following
  /\ k \in 1 .. Len(voteTrigs)
  /\ ai \in voteTrigs[k].ai
  /\ FiresNext(ai, voteTrigs[k].ai)
  /\ voteTrigs' = [voteTrigs EXCEPT ![k].ai = @ \ {ai}]
  /\ IF gameExists
     THEN /\ votedForId \in
               (IF simulateAIVote(round.submissions, ai) = {} THEN {0}
                ELSE simulateAIVote(round.submissions, ai))
          /\ SetGame(aiVote(Game, ai, votedForId))
     ELSE /\ votedForId = 0
          /\ UNCHANGED <<status, players, round>>
  /\ UNCHANGED <<gameExists, nextId, ack, selCalls, genCalls, irregular, tallies>>

\* the endRound timer of the oldest trigger fires, 2000 ms after its
\* castVote: later than that trigger's vote timers (at most 1600 ms)
EndRoundFire ==
  /\ Following
  /\ voteTrigs # <<>>
  /\ voteTrigs[1].ai = {}
  /\ voteTrigs' = Tail(voteTrigs)
  /\ IF gameExists
     THEN SetGame(endRound(Game))
     ELSE UNCHANGED <<status, players, round>>
  /\ tallies' = IF gameExists /\ round.status # RESULTS THEN tallies + 1 ELSE tallies
  /\ UNCHANGED <<gameExists, nextId, ack, selCalls, genCalls, irregular>>

\* NEXT_ROUND handler
NextRound(a) ==
  /\ Following
  /\ a < nextId
  /\ IF InGame(a) /\ round.status = RESULTS
     THEN /\ IF status = GAME_COMPLETED
             THEN UNCHANGED <<status, players, round>>
             ELSE \E g \in startNewRoundOutcomes(Game) : SetGame(g)
          /\ ack' = Ok("NEXT_ROUND")
          /\ tallies' = IF round'.number # round.number THEN 0 ELSE tallies
          /\ UNCHANGED <<gameExists, nextId, selCalls, genCalls, voteTrigs, irregular>>
     ELSE Fail("NEXT_ROUND")

\* LEAVE_GAME handler (acknowledged) or disconnect (not acknowledged):
\* handlePlayerLeave, removePlayer
LeaveGame(a, acknowledged) ==
  /\ Following
  /\ a < nextId
  /\ IF InGame(a)
     THEN LET r == removePlayer(Game, a)
          IN  /\ Irregular(TRUE)
              /\ UNCHANGED tallies
              /\ SetGame(r.game)
              /\ gameExists' = ~r.deleted
              /\ ack' = IF acknowledged THEN Ok("LEAVE_GAME") ELSE ack
              /\ UNCHANGED <<nextId, selCalls, genCalls, voteTrigs>>
     ELSE /\ acknowledged
          /\ Fail("LEAVE_GAME")

\* the texts and morals a client may send
Texts == {"", "x"}
Morals == {"", "Be kind."}

Next ==
  \/ CreateGame
  \/ JoinGame
  \/ \E a \in Humans : StartGame(a)
  \/ \E a \in Humans : \E c \in CardChoices(a) : \E t \in Texts \ {""} : UpdateCustomCard(a, c, t)
  \/ \E a \in Humans : \E c \in CardChoices(a) : \E t \in Texts : SelectCard(a, c, t)
  \/ \E k \in 1 .. MaxInFlight : \E ai \in {AIId(i) : i \in 1 .. totalPlayersNeeded} :
       \E idx \in 1 .. MaxAIPick : AISelectFire(k, ai, idx)
  \/ \E a \in Humans : \E m \in Morals : SubmitMoral(a, m)
  \/ \E k \in 1 .. MaxInFlight : \E m \in UNION {generateAIMoral(genCalls[j].story) : j \in 1 .. Len(genCalls)} :
       GenerateResume(k, m)
  \/ \E a \in Humans : \E v \in VoteChoices(a) : CastVote(a, v)
  \/ \E k \in 1 .. MaxInFlight : \E ai \in {AIId(i) : i \in 1 .. totalPlayersNeeded} :
       \E v \in {0} \cup {players[i].id : i \in 1 .. Len(players)} : AIVoteFire(k, ai, v)
  \/ EndRoundFire
  \/ \E a \in Humans : NextRound(a)
  \/ \E a \in Humans : \E acknowledged \in BOOLEAN : LeaveGame(a, acknowledged)

Spec == Init /\ [][Next]_vars

---------------------------------------------------------------------------
(* The dealing: the rounds of a session as startGame and startNewRound     *)
(* deal them, over more outcomes of the shuffle and with custom cards.     *)

\* START_GAME handler
StartGameAnyDeal(a) ==
  /\ Following
  /\ a < nextId
  /\ LET games == startGameAmong(Game, [n \in 1 .. maxPlayers |-> ShuffleOutcomes(n)],
                                 1 .. MaxDealCustomIdx)
     IN  IF InGame(a) /\ PlayerOf(players, a).isHost /\ games # {}
         THEN /\ \E g \in games : SetGame(g)
              /\ ack' = Ok("START_GAME")
              /\ UNCHANGED <<gameExists, nextId, selCalls, genCalls, voteTrigs, irregular, tallies>>
         ELSE Fail("START_GAME")

\* startNewRound(gameId) of the manager, as the NEXT_ROUND handler calls it.
\* The play of the round before it is left out: of what the play leaves
\* behind, startNewRound resets the selected cards, morals and votes, and
\* the scores have no part in the dealing.
StartNewRoundAnyDeal ==
  /\ Following
  /\ gameExists
  /\ status = ACTIVE
  /\ \E g \in startNewRoundAmong(Game, [n \in 1 .. maxPlayers |-> ShuffleOutcomes(n)],
                                 1 .. MaxDealCustomIdx) :
       SetGame(g)
  /\ ack' = Ok("NEXT_ROUND")
  /\ UNCHANGED <<gameExists, nextId, selCalls, genCalls, voteTrigs, irregular, tallies>>

DealNext ==
  \/ CreateGame
  \/ JoinGame
  \/ \E a \in Humans : StartGameAnyDeal(a)
  \/ StartNewRoundAnyDeal
  \/ \E a \in Humans : \E acknowledged \in BOOLEAN : LeaveGame(a, acknowledged)

DealSpec == Init /\ [][DealNext]_vars

---------------------------------------------------------------------------
(* The first selection: a session from its creation to the end of the      *)
(* selection phase of round 1, dealt with custom cards.                    *)

SelectNext ==
  \/ CreateGame
  \/ JoinGame
  \/ \E a \in Humans : StartGameAnyDeal(a)
  \/ \E a \in Humans : \E c \in CardChoices(a) : \E t \in Texts \ {""} : UpdateCustomCard(a, c, t)
  \/ \E a \in Humans : \E c \in CardChoices(a) : \E t \in Texts : SelectCard(a, c, t)
  \/ \E k \in 1 .. MaxInFlight : \E ai \in {AIId(i) : i \in 1 .. totalPlayersNeeded} :
       \E idx \in 1 .. MaxAIPick : AISelectFire(k, ai, idx)
  \/ \E a \in Humans : \E acknowledged \in BOOLEAN : LeaveGame(a, acknowledged)

SelectSpec == Init /\ [][SelectNext]_vars

---------------------------------------------------------------------------
(* The lobby: a session that as many sockets as the settings admit join    *)
(* and leave, until its host starts it.                                    *)

\* JOIN_GAME handler, for every socket that the settings admit and one more
JoinLobby ==
  /\ Following
  /\ nextId > 1
  /\ nextId <= maxPlayers + 1
  /\ IF gameExists /\ joinGame(Game, nextId).ok
     THEN /\ SetGame(joinGame(Game, nextId).game)
          /\ nextId' = nextId + 1
          /\ ack' = Ok("JOIN_GAME")
          /\ UNCHANGED <<gameExists, selCalls, genCalls, voteTrigs, irregular, tallies>>
     ELSE Fail("JOIN_GAME")

LobbyNext ==
  \/ CreateGame
  \/ JoinLobby
  \/ \E a \in 1 .. maxPlayers : StartGameAnyDeal(a)
  \/ \E a \in 1 .. maxPlayers : \E acknowledged \in BOOLEAN : LeaveGame(a, acknowledged)

LobbySpec == Init /\ [][LobbyNext]_vars

----------------------------------------------------------------------------
(* Properties *)

\* the phase changes that the round's state list allows
LegalEdges ==
  {<<WAITING, SELECTION>>, <<SELECTION, STORYTELLING>>, <<STORYTELLING, VOTING>>,
   <<VOTING, RESULTS>>, <<RESULTS, SELECTION>>, <<RESULTS, ROUND_COMPLETED>>}

\* C1: in every step of the session, whichever operation or delayed
\* continuation takes it, the round phase either stays as it is or changes
\* along one of the legal edges WAITING->SELECTION, SELECTION->STORYTELLING,
\* STORYTELLING->VOTING, VOTING->RESULTS, RESULTS->SELECTION (or
\* RESULTS->COMPLETED at the end of the session): never backwards, never
\* skipping a phase.
PhaseOrder ==
  [][round'.status # round.status => <<round.status, round'.status>> \in LegalEdges]_vars

\* the ids of the participants of the session
PlayerIds == {players[i].id : i \in 1 .. Len(players)}

\* C2: a castVote from a voter whose vote is already recorded in the current
\* round is rejected: it is answered with a failure and changes no vote
\* count and no has-voted flag (nothing of the round or the participants).
SecondVoteRejected ==
  [][\A a \in Humans : \A v \in PlayerIds :
       (InGame(a) /\ PlayerOf(players, a).hasVoted /\ CastVote(a, v))
         => (~ack'.success /\ round' = round /\ players' = players)]_vars

\* C3: in every reachable state the vote counts of the round's submissions
\* add up to the number of submissions whose has-voted flag is set.
VotesMatchVoters ==
  gameExists =>
    SumSeq([k \in 1 .. Len(round.submissions) |-> round.submissions[k].votes])
      = Cardinality({k \in 1 .. Len(round.submissions) : round.submissions[k].hasVoted})

\* C4: the round is resolved (endRound tallies the scores and moves to
\* RESULTS) only in a state where every participant has has-voted = true
\* and no simulated vote is still pending.
ResolutionAfterAllVotes ==
  [][tallies' = tallies + 1 =>
       /\ \A i \in 1 .. Len(players) : players[i].hasVoted
       /\ \A k \in 1 .. Len(voteTrigs) : voteTrigs[k].ai = {}]_vars

\* C5: a score changes only in the one resolution of a round, and then by
\* exactly the vote count of the participant's own submission; no second
\* endRound, late vote or late continuation changes a score.
ScoresTalliedOnce ==
  [][\A i \in 1 .. Len(players') :
       (/\ HasPlayer(players, players'[i].id)
        /\ players'[i].score # PlayerOf(players, players'[i].id).score)
         => /\ tallies = 0
            /\ tallies' = 1
            /\ HasSubmission(round.submissions, players'[i].id)
            /\ players'[i].score =
                 PlayerOf(players, players'[i].id).score
                   + SubmissionOf(round.submissions, players'[i].id).votes]_vars

\* the session as the clients see it is left as it was
SessionUnchanged == UNCHANGED <<gameExists, status, players, round>>

\* C6 as stated: RESULTS of the round whose number is roundsToPlay comes
\* with the session status COMPLETED, and from then on every nextRound
\* request is answered with a failure and changes nothing of the session.
CompletedRejectsNextRound ==
  /\ [](gameExists /\ round.status = RESULTS /\ round.number = roundsToPlay
          => status = GAME_COMPLETED)
  /\ [][\A a \in Humans :
          (gameExists /\ status = GAME_COMPLETED /\ NextRound(a))
            => (~ack'.success /\ SessionUnchanged)]_vars

\* C6 as amended: RESULTS of the round whose number is roundsToPlay comes
\* with the session status COMPLETED, and from then on every nextRound
\* request changes nothing of the session; it is acknowledged with success
\* when the caller is in the session and the phase is RESULTS, and with a
\* failure otherwise.
CompletedIgnoresNextRound ==
  /\ [](gameExists /\ round.status = RESULTS /\ round.number = roundsToPlay
          => status = GAME_COMPLETED)
  /\ [][\A a \in Humans :
          (gameExists /\ status = GAME_COMPLETED /\ NextRound(a))
            => /\ SessionUnchanged
               /\ ack'.success <=> (InGame(a) /\ round.status = RESULTS)]_vars

\* a nextRound request has been acknowledged in the completed session after
\* the regular resolution of its last round
NextRoundAfterCompletion ==
  /\ gameExists /\ status = GAME_COMPLETED
  /\ round.status = RESULTS /\ round.number = roundsToPlay
  /\ irregular = 0 /\ tallies = 1
  /\ ack = Ok("NEXT_ROUND")

\* the operation is answered with a failure and nothing of the session or
\* of its scheduled continuations changes
Rejected ==
  /\ ~ack'.success
  /\ UNCHANGED <<gameExists, status, players, round, selCalls, genCalls, voteTrigs>>

\* the step is an operation issued in a phase where it is not valid
InvalidPhaseOperation ==
  \/ /\ round.status # SELECTION
     /\ ack'.op \in {"SELECT_CARD", "UPDATE_CUSTOM_CARD"}
     /\ \E a \in Humans : \E c \in CardChoices(a) : \E t \in Texts :
          SelectCard(a, c, t) \/ UpdateCustomCard(a, c, t)
  \/ /\ round.status # STORYTELLING
     /\ ack'.op = "SUBMIT_MORAL"
     /\ \E a \in Humans : \E m \in Morals : SubmitMoral(a, m)
  \/ /\ round.status # VOTING
     /\ ack'.op = "CAST_VOTE"
     /\ \E a \in Humans : \E v \in VoteChoices(a) : CastVote(a, v)
  \/ /\ round.status # RESULTS
     /\ ack'.op = "NEXT_ROUND"
     /\ \E a \in Humans : NextRound(a)
  \/ /\ status # LOBBY
     /\ ack'.op \in {"JOIN_GAME", "START_GAME"}
     /\ JoinGame \/ \E a \in Humans : StartGame(a)

\* C7: an operation issued in a phase where it is not valid (selectCard or
\* updateCustomCard outside SELECTION, submitMoral outside STORYTELLING,
\* castVote outside VOTING, nextRound outside RESULTS, joinGame or startGame
\* outside the lobby) is answered with a failure and leaves the whole
\* session unchanged.
InvalidPhaseRejected ==
  [][gameExists => (Rejected \/ ~InvalidPhaseOperation)]_vars

\* a castVote has been rejected during the selection phase of a running
\* session
VoteRejectedInSelection ==
  /\ gameExists /\ status = ACTIVE /\ round.status = SELECTION
  /\ ack = Failure("CAST_VOTE")

\* the connected humans have each done what the phase asks of them
HumansDone ==
  \A i \in 1 .. Len(players) :
    ~players[i].isAI =>
      CASE round.status = SELECTION -> players[i].selectedCard # NoCard
        [] round.status = STORYTELLING -> players[i].submittedMoral # NoMoral
        [] round.status = VOTING -> players[i].hasVoted
        [] OTHER -> TRUE

\* C8: no reachable state holds an active session in SELECTION,
\* STORYTELLING or VOTING from which the phase can never advance again:
\* whenever every connected human has done what the phase asks for, a
\* continuation is still scheduled that will move the session on.
NeverStuck ==
  (/\ gameExists /\ status = ACTIVE
   /\ round.status \in {SELECTION, STORYTELLING, VOTING}
   /\ HumansDone)
    => InFlight > 0

\* the fields of a participant that a leave is to preserve
Kept(p) == <<p.id, p.score, p.cardType, p.hand, p.selectedCard>>

StaleSelectionIsNoOp ==
  [][\A k \in 1 .. Len(selCalls) : \A ai \in PlayerIds : \A idx \in 1 .. MaxAIPick :
       (gameExists /\ round.status # SELECTION /\ AISelectFire(k, ai, idx))
         => (players' = players /\ round' = round)]_vars

\* C11: a continuation of generateAIMorals that resumes, after its await of
\* the text-generation service, when the phase is no longer STORYTELLING
\* changes nothing: not the phase, no participant's submitted text, no
\* submission.
StaleGenerationIsNoOp ==
  [][\A k \in 1 .. Len(genCalls) : \A m \in generateAIMoral(genCalls[k].story) :
       (gameExists /\ round.status # STORYTELLING /\ GenerateResume(k, m))
         => (players' = players /\ round' = round)]_vars

\* what the voting and the resolution of a round write: vote counts and
\* has-voted flags of the submissions, has-voted flags and scores of the
\* participants, the phase
VotingView ==
  <<[k \in 1 .. Len(round.submissions) |->
       <<round.submissions[k].votes, round.submissions[k].hasVoted>>],
    [i \in 1 .. Len(players) |-> <<players[i].hasVoted, players[i].score>>],
    round.status>>

\* the VOTING phase in which trigger k was set has ended: its round has
\* reached RESULTS, or a later round has begun
StaleTrigger(k) ==
  round.status = RESULTS \/ round.number > voteTrigs[k].number

\* C12: a simulated-vote timer or an endRound timer set in the VOTING phase
\* of round r that fires after that phase has ended (RESULTS reached, or
\* round r+1 begun) changes no vote count, no has-voted flag, no score and
\* not the phase.
StaleVoteTimersAreNoOps ==
  [][\A k \in 1 .. Len(voteTrigs) :
       (/\ gameExists
        /\ StaleTrigger(k)
        /\ \/ k = 1 /\ EndRoundFire
           \/ \E ai \in voteTrigs[k].ai : \E v \in {0} \cup PlayerIds : AIVoteFire(k, ai, v))
         => VotingView' = VotingView]_vars

\* C13: a nextRound request from a participant without the host flag is
\* rejected: it is answered with a failure and leaves the round number and
\* the phase unchanged.
NextRoundHostOnly ==
  [][\A a \in Humans :
       (InGame(a) /\ ~PlayerOf(players, a).isHost /\ NextRound(a))
         => /\ ~ack'.success
            /\ round'.number = round.number
            /\ round'.status = round.status]_vars

----------------------------------------------------------------------------
(* Snapshots (socket-handler.ts, broadcastGameState) *)

\* Array(handLength).fill({ id: 0, text: "Hidden Card" })
HiddenCard == [id |-> 0, text |-> "Hidden Card"]

\* sanitizeGameStateForPlayer(game, playerId): the deep copy of the game
\* with the hands of the other players masked, and the has-voted flags of
\* the receiving player and its submission synchronised during voting
sanitizeGameStateForPlayer(g, playerId) ==
  LET masked(player) ==
        IF player.id = playerId THEN player
        ELSE IF player.selectedCard # NoCard /\ g.round.status # SELECTION
        THEN [player EXCEPT !.hand =
                IF HandHas(player, player.selectedCard)
                THEN <<HandCard(player, player.selectedCard)>>
                ELSE <<>>]
        ELSE [player EXCEPT !.hand = [k \in 1 .. Len(player.hand) |-> HiddenCard]]
      ps == [i \in 1 .. Len(g.players) |-> masked(g.players[i])]
      subs == g.round.submissions
      sync == /\ g.round.status = VOTING
              /\ HasPlayer(ps, playerId)
              /\ HasSubmission(subs, playerId)
              /\ PlayerOf(ps, playerId).hasVoted # SubmissionOf(subs, playerId).hasVoted
  IN  IF sync
      THEN [g EXCEPT !.players = [ps EXCEPT ![IndexOf(ps, playerId)].hasVoted = TRUE],
                     !.round.submissions[SubIndex(subs, playerId)].hasVoted = TRUE]
      ELSE [g EXCEPT !.players = ps]

\* the snapshot for participant p of the session in which participant q
\* had chosen card c instead of the card it has chosen
SnapshotHadChosen(p, q, c) ==
  sanitizeGameStateForPlayer(
    [Game EXCEPT !.players[IndexOf(players, q)].selectedCard = c], p)

\* C14: in every snapshot for a participant P and for every other
\* participant Q: while the phase is SELECTION, Q's hand is replaced by as
\* many placeholders as Q holds cards, and the snapshot does not depend on
\* which card of its hand Q has chosen; past SELECTION the snapshot shows
\* of Q's hand exactly the chosen card if Q has selected, and placeholders
\* otherwise.
SnapshotHidesOthers ==
  gameExists =>
    \A p, q \in PlayerIds :
      p # q =>
        LET snap == sanitizeGameStateForPlayer(Game, p)
            Q == PlayerOf(players, q)
            shown == PlayerOf(snap.players, q).hand
            hidden == [k \in 1 .. Len(Q.hand) |-> HiddenCard]
        IN  IF round.status = SELECTION
            THEN /\ shown = hidden
                 /\ Q.selectedCard # NoCard =>
                      \A k \in 1 .. Len(Q.hand) :
                        SnapshotHadChosen(p, q, Q.hand[k].id) = snap
            ELSE IF Q.selectedCard # NoCard
            THEN shown = <<HandCard(Q, Q.selectedCard)>>
            ELSE shown = hidden

PastSelectionAllSelected ==
  (gameExists /\ round.status \in {STORYTELLING, VOTING, RESULTS}) =>
    \A i \in 1 .. Len(players) : players[i].selectedCard # NoCard

\* each role type is held by exactly one of the participants ps
RolesBijective(ps) ==
  \A t \in Range(types) : Cardinality({i \in 1 .. Len(ps) : ps[i].cardType = t}) = 1

\* C17: at the start of every round of a session with exactly 5
\* participants, each of the 5 role types is held by exactly one
\* participant (so no two participants share a role type).
EachRoleOnce ==
  [][(round'.number # round.number /\ Len(players') = totalPlayersNeeded)
       => RolesBijective(players')]_vars

\* round 3 has been dealt to 5 participants after a shuffle that was not
\* the identity
RolesDealtInRoundThree ==
  /\ gameExists /\ status = ACTIVE
  /\ round.number = 3 /\ round.status = SELECTION
  /\ Len(players) = totalPlayersNeeded
  /\ players[1].cardType # types[3]

\* the participant-to-role assignment of the participants ps
Assignment(ps) == {<<ps[i].id, ps[i].cardType>> : i \in 1 .. Len(ps)}

\* C18: for any two consecutive rounds r and r+1 of a session, the
\* participant-to-role assignment of round r+1 differs from that of round
\* r, whatever the outcome of the shuffle of round r+1.
RolesRotate ==
  [][(round.number >= 1 /\ round'.number = round.number + 1)
       => Assignment(players') # Assignment(players)]_vars

\* the hand of participant p is a hand as dealCards is to deal it: HandSize
\* cards with pairwise distinct ids, each of p's role type, at most one of
\* them a blank custom card and the others cards of the deck of that type
HandAsDealt(p) ==
  /\ Len(p.hand) = HandSize
  /\ \A k, m \in 1 .. Len(p.hand) : k # m => p.hand[k].id # p.hand[m].id
  /\ \A k \in 1 .. Len(p.hand) :
       /\ p.hand[k].type = p.cardType
       /\ ~p.hand[k].isCustom => p.hand[k] \in Range(DeckFor(p.cardType))
  /\ Cardinality({k \in 1 .. Len(p.hand) : p.hand[k].isCustom}) <= 1

\* C19: after every round start, the decks holding at least 3 cards each,
\* every participant's hand has exactly 3 cards with pairwise distinct ids,
\* each of the participant's role type; a blank custom card, when dealt,
\* takes the place of one of the 3 and leaves the hand size as it is.
HandsAsDealt ==
  [][(round'.number # round.number /\ DeckSize >= HandSize)
       => \A i \in 1 .. Len(players') : HandAsDealt(players'[i])]_vars

\* round 2 has been dealt and a human holds a blank custom card in it
CustomCardDealt ==
  /\ gameExists /\ status = ACTIVE
  /\ round.number = 2 /\ round.status = SELECTION
  /\ \E i \in 1 .. Len(players) : \E k \in 1 .. Len(players[i].hand) :
       players[i].hand[k].isCustom

\* C20: a selectCard with a card id that is not in the caller's own hand is
\* answered with a failure and changes nothing: the caller's selected card,
\* every card text and the phase (all of the participants and of the round)
\* stay as they are.
AbsentCardRejected ==
  [][\A a \in Humans : \A c \in CardChoices(a) : \A t \in Texts :
       (/\ InGame(a)
        /\ ~HandHas(PlayerOf(players, a), c)
        /\ SelectCard(a, c, t))
         => (~ack'.success /\ players' = players /\ round' = round)]_vars

\* a selectCard of a participant has been rejected in the selection phase,
\* where only the card id can be the reason, while a human holds a custom
\* card whose text has been set
AbsentCardRefused ==
  /\ gameExists /\ status = ACTIVE /\ round.status = SELECTION
  /\ ack = Failure("SELECT_CARD")
  /\ irregular = 0
  /\ \E i \in 1 .. Len(players) : \E k \in 1 .. Len(players[i].hand) :
       players[i].hand[k].isCustom /\ players[i].hand[k].text # ""

\* C21: a selectCard with the card id the caller has already selected in
\* the current round is a no-op: the session after it, the card texts and
\* the pending simulated selections (all scheduled continuations) included,
\* equals the session before it.
ReselectIsNoOp ==
  [][\A a \in Humans : \A c \in CardChoices(a) : \A t \in Texts :
       (/\ InGame(a)
        /\ PlayerOf(players, a).selectedCard = c
        /\ SelectCard(a, c, t))
         => UNCHANGED <<gameExists, status, players, round, selCalls, genCalls, voteTrigs>>]_vars

\* the vote count of the submission of participant pid, 0 without one
VotesOf(subs, pid) == IF HasSubmission(subs, pid) THEN SubmissionOf(subs, pid).votes ELSE 0

\* C22: no vote is ever counted for the voter's own submission: a castVote
\* with votee = voter is rejected without any mutation, no castVote raises
\* the vote count of the caller's own submission, and the vote of a
\* simulated participant never raises the count of its own submission.
NoSelfVote ==
  [][/\ \A a \in Humans :
          (ack'.op = "CAST_VOTE" /\ InGame(a)) =>
            /\ CastVote(a, a) => Rejected
            /\ \A v \in VoteChoices(a) :
                 CastVote(a, v) =>
                   VotesOf(round'.submissions, a) = VotesOf(round.submissions, a)
     /\ \A k \in 1 .. Len(voteTrigs) : \A ai \in voteTrigs[k].ai :
          (gameExists /\ \E v \in {0} \cup PlayerIds : AIVoteFire(k, ai, v))
            => VotesOf(round'.submissions, ai) = VotesOf(round.submissions, ai)]_vars

\* a participant's vote for itself has been refused in the voting phase,
\* after simulated participants have voted
SelfVoteRefused ==
  /\ gameExists /\ status = ACTIVE /\ round.status = VOTING
  /\ ack = Failure("CAST_VOTE")
  /\ irregular = 0
  /\ \E i \in 1 .. Len(players) : players[i].isAI /\ players[i].hasVoted

\* the votes counted in the round, and the points of all participants
VotesCast == SumSeq([k \in 1 .. Len(round.submissions) |-> round.submissions[k].votes])
ScoreSum == SumSeq([i \in 1 .. Len(players) |-> players[i].score])

\* C23: when a round played by n participants with no departure is
\* resolved, exactly n votes have been cast in it (the vote counts of the
\* submissions add up to n) and the scores of all participants together
\* grow by exactly n; with 2 humans and 3 simulated participants, by 5.
RoundCastsNVotes ==
  [][(tallies' = tallies + 1 /\ Len(players) = totalPlayersNeeded)
       => /\ VotesCast = Len(players)
          /\ ScoreSum' = ScoreSum + Len(players)]_vars

\* C24: when a leave or disconnect removes the last participant of a
\* session, the session is deleted from the registry in the same step, and
\* from then on it stays deleted and every operation naming it fails and
\* changes nothing; a session is deleted only when its participant list has
\* become empty.
LastLeaveDeletes ==
  [][/\ \A a \in Humans : \A acknowledged \in BOOLEAN :
          (InGame(a) /\ LeaveGame(a, acknowledged))
            => (gameExists' <=> Len(players) > 1)
     /\ (gameExists /\ ~gameExists') => players' = <<>>
     /\ (~gameExists /\ nextId > 1)
          => /\ ~gameExists'
             /\ ack' # ack => ~ack'.success
             /\ UNCHANGED <<status, players, round>>]_vars

\* the only participant has left its session, and a join naming the deleted
\* session has failed
JoinAfterDeletionFailed ==
  /\ ~gameExists /\ nextId = 2 /\ players = <<>>
  /\ irregular = 1
  /\ ack = Failure("JOIN_GAME")

\* C25: when a leave or disconnect leaves an active session without a human
\* participant, the session status becomes COMPLETED in the same step, and
\* a session that is COMPLETED stays COMPLETED.
NoHumanCompletes ==
  [][/\ \A a \in Humans : \A acknowledged \in BOOLEAN :
          (/\ InGame(a) /\ status = ACTIVE
           /\ LeaveGame(a, acknowledged)
           /\ gameExists'
           /\ HumanPlayers(players') = <<>>)
            => status' = GAME_COMPLETED
     /\ status = GAME_COMPLETED => status' = GAME_COMPLETED]_vars

\* the only human has left a running session, which is now completed and
\* holds simulated participants only
OnlySimulatedLeft ==
  /\ gameExists /\ status = GAME_COMPLETED
  /\ irregular = 1
  /\ players # <<>> /\ HumanPlayers(players) = <<>>
  /\ round.number = 1

\* C26: a successful start of a lobby of h humans, 1 <= h <= 5, leaves a
\* session of exactly 5 participants, the h humans of the lobby and 5 - h
\* simulated ones, with status ACTIVE, round number 1 and phase SELECTION
StartFillsToFive ==
  [][\A a \in 1 .. maxPlayers :
       (status = LOBBY /\ ack' = Ok("START_GAME") /\ StartGameAnyDeal(a))
         => /\ Len(players) \in 1 .. 5
            /\ Len(players') = 5
            /\ Len(AIPlayers(players')) = 5 - Len(players)
            /\ [i \in 1 .. Len(players) |-> players'[i].id] = [i \in 1 .. Len(players) |-> players[i].id]
            /\ \A i \in 1 .. Len(players) : ~players'[i].isAI
            /\ \A i \in Len(players) + 1 .. 5 : players'[i].isAI
            /\ status' = ACTIVE
            /\ round'.number = 1
            /\ round'.status = SELECTION]_vars

\* C26 witness: a session started from a lobby of three humans
StartedWithThreeHumans ==
  /\ gameExists
  /\ ack = Ok("START_GAME")
  /\ status = ACTIVE
  /\ Len(HumanPlayers(players)) = 3
  /\ Len(players) = 5

\* a session started from a full lobby of five humans
StartedWithFiveHumans ==
  /\ gameExists
  /\ ack = Ok("START_GAME")
  /\ Len(HumanPlayers(players)) = 5

\* the number of rounds of a game in the rules that the client shows
RulesRounds == 5

\* C27: with the default settings a session that keeps a human becomes
\* COMPLETED only when round 5 reaches RESULTS, and is still ACTIVE when
\* one of the rounds 1 to 4 reaches RESULTS
OverAfterFiveRounds ==
  [][/\ (status = ACTIVE /\ status' = GAME_COMPLETED /\ HumanPlayers(players') # <<>>)
          => (round'.number = RulesRounds /\ round'.status = RESULTS)
     /\ (status = ACTIVE /\ round.status # RESULTS /\ round'.status = RESULTS
         /\ round'.number < RulesRounds /\ HumanPlayers(players') # <<>>)
          => status' = ACTIVE]_vars

\* C28: in a session the round number never decreases, changes only by +1
\* and only on a successful nextRound, and never exceeds the configured
\* rounds-to-play
NumberOnlyByNextRound ==
  [][gameExists' =>
       /\ round'.number >= round.number
       /\ round'.number <= roundsToPlay
       /\ round'.number # round.number
            => /\ round'.number = round.number + 1
               /\ ack' = Ok("NEXT_ROUND")
               /\ \E a \in Humans : NextRound(a)]_vars

\* C28 as amended: in a session the round number never decreases, changes
\* only by +1, from 0 to 1 on a successful startSession and otherwise only
\* on a successful nextRound, and never exceeds the configured rounds-to-play
NumberByStartOrNextRound ==
  [][gameExists' =>
       /\ round'.number >= round.number
       /\ round'.number <= roundsToPlay
       /\ round'.number # round.number
            => /\ round'.number = round.number + 1
               /\ \/ /\ round.number = 0
                     /\ ack' = Ok("START_GAME")
                     /\ \E a \in Humans : StartGame(a)
                  \/ /\ round.number > 0
                     /\ ack' = Ok("NEXT_ROUND")
                     /\ \E a \in Humans : NextRound(a)]_vars

\* C28 witness: a successful nextRound has taken the session to its last round
LastRoundStarted ==
  /\ gameExists
  /\ status = ACTIVE
  /\ ack = Ok("NEXT_ROUND")
  /\ round.number = roundsToPlay
  /\ round.status = SELECTION

\* the last timer of a call of makeAISelections finds every participant
\* with a selected card, and the call assembles the narrative
AssemblesLate(k, ai, idx) ==
  /\ gameExists
  /\ k \in 1 .. Len(selCalls)
  /\ selCalls[k].pending = {ai}
  /\ AISelectFire(k, ai, idx)
  /\ AllSelected(players')

\* C29: the step that assembles the narrative leaves exactly one fresh
\* submission per current participant, with the participant's selected card,
\* no moral, zero votes and has-voted false; and the narrative is assembled
\* once per round: only by the step that ends the selection phase
AssembledOncePerRound ==
  [][/\ (gameExists' /\ round.status = SELECTION /\ round'.status = STORYTELLING)
          => /\ round'.submissions = NewSubmissions(players')
             /\ \A i \in 1 .. Len(players') :
                  /\ round'.submissions[i].cardId = players'[i].selectedCard
                  /\ players'[i].selectedCard # NoCard
     /\ \A k \in 1 .. MaxInFlight : \A ai \in PlayerIds : \A idx \in 1 .. MaxAIPick :
          AssemblesLate(k, ai, idx) => round.status = SELECTION]_vars

\* C30: in every state of a session with phase STORYTELLING, VOTING or
\* RESULTS the submissions are exactly one for each current participant,
\* and none for anyone who is not a current participant
OneSubmissionEach ==
  (gameExists /\ round.status \in {STORYTELLING, VOTING, RESULTS})
    => /\ \A i \in 1 .. Len(players) :
            Cardinality({k \in 1 .. Len(round.submissions) :
                           round.submissions[k].playerId = players[i].id}) = 1
       /\ \A k \in 1 .. Len(round.submissions) :
            HasPlayer(players, round.submissions[k].playerId)

\* C31: in every state, for every participant that has a submission, the
\* participant's submitted text equals the moral of that submission
MoralRecordsAgree ==
  gameExists =>
    \A i \in 1 .. Len(players) :
      HasSubmission(round.submissions, players[i].id)
        => players[i].submittedMoral = SubmissionOf(round.submissions, players[i].id).moral

\* C32: in every state, for every participant that has a submission, the
\* has-voted flag of the participant equals the has-voted flag of that
\* submission
VotedFlagsAgree ==
  gameExists =>
    \A i \in 1 .. Len(players) :
      HasSubmission(round.submissions, players[i].id)
        => players[i].hasVoted = SubmissionOf(round.submissions, players[i].id).hasVoted

\* C33: the text of a non-custom card never changes, and the text of a
\* custom card does not change once its owner has selected that card
CardTextFixed ==
  [][(gameExists /\ gameExists' /\ round'.number = round.number) =>
       \A i \in 1 .. Len(players) :
         HasPlayer(players', players[i].id) =>
           LET p == players[i]
               q == PlayerOf(players', p.id)
           IN  \A k \in 1 .. Len(p.hand) :
                 (/\ k <= Len(q.hand)
                  /\ q.hand[k].id = p.hand[k].id
                  /\ (~p.hand[k].isCustom \/ p.selectedCard = p.hand[k].id))
                   => q.hand[k].text = p.hand[k].text]_vars

\* C34: a continuation of a simulated selection is scheduled only when every
\* human participant has selected, and each simulated participant has at
\* most one such continuation pending
SimulatedSelectAfterHumans ==
  [][gameExists' =>
       /\ Len(selCalls') > Len(selCalls)
            => \A i \in 1 .. Len(players') :
                 ~players'[i].isAI => players'[i].selectedCard # NoCard
       /\ \A i \in 1 .. Len(players') :
            Cardinality({k \in 1 .. Len(selCalls') : players'[i].id \in selCalls'[k].pending}) <= 1]_vars

\* C35: a successful nextRound in phase RESULTS with rounds remaining sets
\* the phase to SELECTION, empties the narrative and the submissions, resets
\* every participant's selected card and submitted text to null and
\* has-voted to false, and leaves every participant's score, the participant
\* list and the host flag unchanged
NextRoundResets ==
  [][\A a \in Humans :
       (/\ ack' = Ok("NEXT_ROUND")
        /\ status = ACTIVE
        /\ round.status = RESULTS
        /\ round.number < roundsToPlay
        /\ NextRound(a))
         => /\ round'.status = SELECTION
            /\ round'.story = ""
            /\ round'.submissions = <<>>
            /\ Len(players') = Len(players)
            /\ \A i \in 1 .. Len(players) :
                 /\ players'[i].selectedCard = NoCard
                 /\ players'[i].submittedMoral = NoMoral
                 /\ players'[i].hasVoted = FALSE
                 /\ players'[i].id = players[i].id
                 /\ players'[i].isAI = players[i].isAI
                 /\ players'[i].score = players[i].score
                 /\ players'[i].isHost = players[i].isHost]_vars

\* C35 witness: a successful nextRound has opened round 2 for participants
\* that voted in round 1 and carry its scores
SecondRoundOpened ==
  /\ gameExists
  /\ ack = Ok("NEXT_ROUND")
  /\ status = ACTIVE
  /\ round.number = 2
  /\ round.status = SELECTION
  /\ round.submissions = <<>>
  /\ \E i \in 1 .. Len(players) : players[i].score > 0

\* C36: when the text-generation service fails, the moral recorded for the
\* simulated participant is the entry (narrative length mod 10) of the list
\* of 10 fallback morals, and no client gets an error for it
FallbackByStoryLength ==
  [][\A k \in 1 .. MaxInFlight :
       (k <= Len(genCalls) /\ gameExists) =>
         \A moral \in generateAIMoral(genCalls[k].story) \ {"All clocks lie.", "Time keeps no promises."} :
           GenerateResume(k, moral) =>
             LET fallback == fallbackMorals[(Len(genCalls[k].story) % 10) + 1]
                 pid == genCalls[k].pid
             IN  /\ Len(fallbackMorals) = 10
                 /\ moral = fallback
                 /\ PlayerOf(players', pid).submittedMoral = fallback
                 /\ HasSubmission(round'.submissions, pid)
                      => SubmissionOf(round'.submissions, pid).moral = fallback
                 /\ ack' = ack]_vars

\* C36 witness: a simulated participant holds the fallback moral of the
\* round's narrative, which is not the first entry of the list
FallbackRecorded ==
  /\ gameExists
  /\ round.status = STORYTELLING
  /\ Len(round.story) % 10 # 0
  /\ \E i \in 1 .. Len(players) :
       /\ players[i].isAI
       /\ players[i].submittedMoral = fallbackMorals[(Len(round.story) % 10) + 1]
       /\ HasSubmission(round.submissions, players[i].id)
       /\ SubmissionOf(round.submissions, players[i].id).moral = players[i].submittedMoral

\* C37: joinSession succeeds only if the session exists, is in the lobby and
\* has fewer than 5 participants, and otherwise fails and leaves the
\* participant list unchanged; a session has at most 5 participants, and no
\* participant is added after the session has started
JoinOnlyInOpenLobby ==
  [][/\ (ack'.op = "JOIN_GAME" /\ JoinLobby)
          => /\ ack'.success <=> (gameExists /\ status = LOBBY /\ Len(players) < 5)
             /\ ack'.success => (Len(players') = Len(players) + 1
                                 /\ SubSeq(players', 1, Len(players)) = players)
             /\ ~ack'.success => (players' = players /\ gameExists' = gameExists)
     /\ gameExists' => Len(players') <= 5
     /\ (gameExists /\ gameExists' /\ status # LOBBY)
          => {players'[i].id : i \in 1 .. Len(players')} \subseteq PlayerIds]_vars

\* C37 witness: a join was refused by a session that has started
JoinRefusedAfterStart ==
  /\ gameExists
  /\ status = ACTIVE
  /\ ack = Failure("JOIN_GAME")
  /\ Len(HumanPlayers(players)) < 5

\* a join was refused by a lobby of five
JoinRefusedByFullLobby ==
  /\ gameExists
  /\ status = LOBBY
  /\ ack = Failure("JOIN_GAME")
  /\ Len(players) = 5

\* C38: in every state, the selected card of every participant that has one
\* is a card of that participant's current hand
SelectedCardInHand ==
  gameExists =>
    \A i \in 1 .. Len(players) :
      players[i].selectedCard # NoCard
        => \E k \in 1 .. Len(players[i].hand) : players[i].hand[k].id = players[i].selectedCard

\* C38 witness: in round 2 a human and a simulated participant have selected
SelectedInSecondRound ==
  /\ gameExists
  /\ round.number = 2
  /\ \E i \in 1 .. Len(players) : ~players[i].isAI /\ players[i].selectedCard # NoCard
  /\ \E i \in 1 .. Len(players) : players[i].isAI /\ players[i].selectedCard # NoCard

\* C39: in every state a session has exactly one participant with the host
\* flag; when the host leaves and others remain, the flag passes in the same
\* step to a human participant if one remains, otherwise to a simulated one
OneHost ==
  [][gameExists' =>
       /\ Cardinality({i \in 1 .. Len(players') : players'[i].isHost}) = 1
       /\ \A a \in 1 .. maxPlayers : \A acknowledged \in BOOLEAN :
            (InGame(a) /\ PlayerOf(players, a).isHost /\ LeaveGame(a, acknowledged))
              => \A i \in 1 .. Len(players') :
                   players'[i].isHost
                     => /\ players'[i].id # a
                        /\ players'[i].isAI => HumanPlayers(players') = <<>>]_vars

\* C39 witness: the host has left a started session and a human that joined
\* later holds the flag
HostPassedToHuman ==
  /\ gameExists
  /\ status = ACTIVE
  /\ ~HasPlayer(players, 1)
  /\ \E i \in 1 .. Len(players) : players[i].isHost /\ ~players[i].isAI

\* the last human, the host, has left and a simulated participant holds the flag
HostPassedToSimulated ==
  /\ gameExists
  /\ HumanPlayers(players) = <<>>
  /\ \E i \in 1 .. Len(players) : players[i].isHost /\ players[i].isAI

\* C40: when a human that has not voted leaves during VOTING while every
\* remaining human has voted, the departure triggers the simulated votes and
\* the resolution of the round: after it the round is in RESULTS or the
\* timer that ends the round is pending, so that RESULTS is reached without
\* a further human vote
DepartureCompletesVoting ==
  [][\A a \in Humans : \A acknowledged \in BOOLEAN :
       (/\ gameExists
        /\ status = ACTIVE
        /\ round.status = VOTING
        /\ InGame(a)
        /\ HasSubmission(round.submissions, a)
        /\ ~SubmissionOf(round.submissions, a).hasVoted
        /\ \E i \in 1 .. Len(players) : ~players[i].isAI /\ players[i].id # a
        /\ \A i \in 1 .. Len(players) :
             (~players[i].isAI /\ players[i].id # a)
               => /\ HasSubmission(round.submissions, players[i].id)
                  /\ SubmissionOf(round.submissions, players[i].id).hasVoted
        /\ LeaveGame(a, acknowledged))
         => \/ round'.status = RESULTS
            \/ \E k \in 1 .. Len(voteTrigs') : voteTrigs'[k].end]_vars

=============================================================================
